---- MODULE Spec2Model ----
(***************************************************************************)
(* structdiff: typed structural diff (Diff::changeset) and patch           *)
(* (Apply::apply) over scalars, Option, Result, Vec, structs and enums.    *)
(*                                                                         *)
(* Encoding.  A type is a tuple whose head is its name:                    *)
(*   <<"u8">> <<"f32">> <<"bool">> <<"unit">> <<"String">>                 *)
(*   <<"Option", T>>  <<"Result", T, E>>  <<"Vec", T>>                     *)
(*   <<"Struct", <<T1, ..., Tn>>>>   (a derived struct, fields in order)   *)
(*   <<"Bar">>  <<"SomeEnum">>       (the hand-written test aggregates)    *)
(* A value of a scalar type is a number, a boolean or a string; Option,    *)
(* Result and enum values are tuples headed by the variant's name; a Vec   *)
(* is a sequence; a struct is the tuple of its fields.  A Field, a         *)
(* changeset case and a VecAction are tuples headed by the case's name.    *)
(* Vec indices are 0-based as in the source; sequences are 1-based.        *)
(***************************************************************************)
EXTENDS Integers, Sequences, FiniteSets, TLC

\* ---- bounds of the model ----
MaxInt == 1
MaxLen == 2
MaxActs == 3
MaxIdx == 1

\* ---- value domains ----
Floats == {"NaN", "0.0", "-0.0", "1.0"}
Strings == {"A", "B"}

T_u8 == <<"u8">>
T_f32 == <<"f32">>
T_bool == <<"bool">>
T_unit == <<"unit">>
T_String == <<"String">>
T_Option(t) == <<"Option", t>>
T_Result(t, e) == <<"Result", t, e>>
T_Vec(t) == <<"Vec", t>>
T_Struct(ts) == <<"Struct", ts>>
T_Bar == <<"Bar">>
T_SomeEnum == <<"SomeEnum">>

Kind(ty) == ty[1]
IsScalar(ty) == Kind(ty) \in {"u8", "f32", "bool", "unit", "String"}

Min(x, y) == IF x < y THEN x ELSE y

RECURSIVE Values(_)
RECURSIVE Tuples(_, _)
\* the tuples <<v1, ..., vk>> with vi a value of type ts[i]
Tuples(ts, k) ==
  IF k = 0 THEN {<<>>}
  ELSE {Append(p, v) : p \in Tuples(ts, k - 1), v \in Values(ts[k])}

Values(ty) ==
  CASE Kind(ty) = "u8" -> 0..MaxInt
    [] Kind(ty) = "f32" -> Floats
    [] Kind(ty) = "bool" -> BOOLEAN
    [] Kind(ty) = "unit" -> {"()"}
    [] Kind(ty) = "String" -> Strings
    [] Kind(ty) = "Option" -> {<<"None">>} \cup {<<"Some", v>> : v \in Values(ty[2])}
    [] Kind(ty) = "Result" -> {<<"Ok", v>> : v \in Values(ty[2])}
                              \cup {<<"Err", e>> : e \in Values(ty[3])}
    [] Kind(ty) = "Vec" -> UNION {[1..n -> Values(ty[2])] : n \in 0..MaxLen}
    [] Kind(ty) = "Struct" -> Tuples(ty[2], Len(ty[2]))
    [] Kind(ty) = "Bar" -> {<<d>> : d \in Strings}
    [] Kind(ty) = "SomeEnum" ->
         {<<"None">>}
         \cup {<<"Field1", s>> : s \in Strings}
         \cup {<<"Field2", n>> : n \in 0..MaxInt}
         \cup {<<"Field3", <<d>>>> : d \in Strings}
         \cup {<<"Field4", m, n>> : m \in 0..MaxInt, n \in 0..MaxInt}

\* ---- equality as the code computes it (PartialEq) ----
RECURSIVE Eq(_, _, _)
Eq(ty, x, y) ==
  CASE Kind(ty) = "f32" ->
         /\ x # "NaN"
         /\ y # "NaN"
         /\ (x = y \/ {x, y} = {"0.0", "-0.0"})
    [] Kind(ty) \in {"u8", "bool", "unit", "String"} -> x = y
    [] Kind(ty) = "Option" ->
         /\ x[1] = y[1]
         /\ (x[1] = "Some" => Eq(ty[2], x[2], y[2]))
    [] Kind(ty) = "Result" ->
         /\ x[1] = y[1]
         /\ Eq(IF x[1] = "Ok" THEN ty[2] ELSE ty[3], x[2], y[2])
    [] Kind(ty) = "Vec" ->
         /\ Len(x) = Len(y)
         /\ \A i \in 1..Len(x) : Eq(ty[2], x[i], y[i])
    [] Kind(ty) = "Struct" -> \A i \in 1..Len(ty[2]) : Eq(ty[2][i], x[i], y[i])
    [] Kind(ty) = "Bar" -> x[1] = y[1]
    [] Kind(ty) = "SomeEnum" ->
         /\ x[1] = y[1]
         /\ CASE x[1] = "None" -> TRUE
              [] x[1] = "Field1" -> Eq(T_String, x[2], y[2])
              [] x[1] = "Field2" -> Eq(T_u8, x[2], y[2])
              [] x[1] = "Field3" -> Eq(T_Bar, x[2], y[2])
              [] x[1] = "Field4" -> Eq(T_u8, x[2], y[2]) /\ Eq(T_u8, x[3], y[3])

\* ---- Field<V, K, A> ----
Field_None == <<"None">>
Field_Set(v) == <<"Set", v>>
Field_Changes(k) == <<"Changes", k>>
Field_Actions(l) == <<"Actions", l>>

\* ---- VecAction<T> ----
VecAction_Set(i, f) == <<"Set", i, f>>
VecAction_Push(v) == <<"Push", v>>
VecAction_Truncate(n) == <<"Truncate", n>>
VecAction_Append(items) == <<"Append", items>>

\* ---- OptionChangeset<T>, ResultChangeset<T, E>, SomeEnumChangeset ----
NoneChangeset(f) == <<"NoneChangeset", f>>
SomeChangeset(f) == <<"SomeChangeset", f>>
OkChangeset(f) == <<"OkChangeset", f>>
ErrChangeset(f) == <<"ErrChangeset", f>>

IsNone(f) == f[1] = "None"

\* ---- Diff::changeset ----
RECURSIVE changeset(_, _, _)
RECURSIVE VecSetLoop(_, _, _, _, _, _)

\* impl_scalar! / impl_scalar_ref!
Diff_scalar(ty, self, other) ==
  IF ~Eq(ty, self, other) THEN Field_Set(other) ELSE Field_None

\* Option::changeset without the `self == other` shortcut
Diff_Option_NoShortcut(ty, self, other) ==
  CASE self[1] = "None" /\ other[1] = "None" ->
         Field_Changes(NoneChangeset(Field_None))
    [] self[1] = "Some" /\ other[1] = "Some" ->
         Field_Changes(SomeChangeset(changeset(ty[2], self[2], other[2])))
    [] OTHER -> Field_Set(other)

\* Option::changeset replacing wholesale where both sides are Some
Diff_Option_AlwaysSet(ty, self, other) ==
  IF Eq(ty, self, other) THEN Field_None ELSE Field_Set(other)

\* impl Diff for Option<T>
Diff_Option(ty, self, other) ==
  IF Eq(ty, self, other) THEN Field_None
  ELSE CASE self[1] = "None" /\ other[1] = "None" ->
              Field_Changes(NoneChangeset(Field_None))
         [] self[1] = "Some" /\ other[1] = "Some" ->
              Field_Changes(SomeChangeset(changeset(ty[2], self[2], other[2])))
         [] OTHER -> Field_Set(other)

\* impl Diff for Result<T, E>
Diff_Result(ty, self, other) ==
  IF Eq(ty, self, other) THEN Field_None
  ELSE CASE self[1] = "Ok" /\ other[1] = "Ok" ->
              Field_Changes(OkChangeset(changeset(ty[2], self[2], other[2])))
         [] self[1] = "Err" /\ other[1] = "Err" ->
              Field_Changes(ErrChangeset(changeset(ty[3], self[2], other[2])))
         [] OTHER -> Field_Set(other)

\* the loop pushing a Set for every position, None diffs included
RECURSIVE VecSetLoop_KeepNone(_, _, _, _, _, _)
VecSetLoop_KeepNone(ty, self, other, i, min, changes) ==
  IF i >= min THEN changes
  ELSE VecSetLoop_KeepNone(ty, self, other, i + 1, min,
         Append(changes,
                VecAction_Set(i, changeset(ty[2], self[i + 1], other[i + 1]))))

\* the loop emitting 1-based indices
RECURSIVE VecSetLoop_OneBased(_, _, _, _, _, _)
VecSetLoop_OneBased(ty, self, other, i, min, changes) ==
  IF i >= min THEN changes
  ELSE LET cs == changeset(ty[2], self[i + 1], other[i + 1])
       IN VecSetLoop_OneBased(ty, self, other, i + 1, min,
                              IF IsNone(cs) THEN changes
                              ELSE Append(changes, VecAction_Set(i + 1, cs)))

\* the loop `for i in 0..min` of Vec::changeset, from index i on
VecSetLoop(ty, self, other, i, min, changes) ==
  IF i >= min THEN changes
  ELSE LET cs == changeset(ty[2], self[i + 1], other[i + 1])
       IN VecSetLoop(ty, self, other, i + 1, min,
                     IF IsNone(cs) THEN changes
                     ELSE Append(changes, VecAction_Set(i, cs)))

\* Vec::changeset appending all of other (other.to_vec()) instead of its tail
Diff_Vec_WholeAppend(ty, self, other) ==
  IF Eq(ty, self, other) THEN Field_None
  ELSE LET min == Min(Len(self), Len(other))
           sets == VecSetLoop(ty, self, other, 0, min, <<>>)
       IN Field_Actions(
            IF Len(self) > Len(other)
              THEN Append(sets, VecAction_Truncate(Len(other)))
            ELSE IF Len(self) < Len(other)
              THEN Append(sets, VecAction_Append(other))
            ELSE sets)

\* impl Diff for Vec<T>
Diff_Vec(ty, self, other) ==
  IF Eq(ty, self, other) THEN Field_None
  ELSE LET min == Min(Len(self), Len(other))
           sets == VecSetLoop(ty, self, other, 0, min, <<>>)
       IN Field_Actions(
            IF Len(self) > Len(other)
              THEN Append(sets, VecAction_Truncate(Len(other)))
            ELSE IF Len(self) < Len(other)
              THEN Append(sets, VecAction_Append(SubSeq(other, min + 1, Len(other))))
            ELSE sets)

\* a derived impl that leaves the last field's slot at its default
Diff_struct_SkipLast(ty, self, other) ==
  IF Eq(ty, self, other) THEN Field_None
  ELSE Field_Changes([i \in 1..Len(ty[2]) |->
                        IF i = Len(ty[2]) THEN Field_None
                        ELSE changeset(ty[2][i], self[i], other[i])])

\* the impl the derive macro generates for a struct (gen_impl_diff, gen_changes)
Diff_struct(ty, self, other) ==
  IF Eq(ty, self, other) THEN Field_None
  ELSE Field_Changes([i \in 1..Len(ty[2]) |-> changeset(ty[2][i], self[i], other[i])])

\* tests: impl Diff for Bar (hand-written, one field field_d: String)
Diff_Bar(ty, self, other) ==
  IF Eq(ty, self, other) THEN Field_None
  ELSE Field_Changes(<<IF ~Eq(T_String, self[1], other[1])
                         THEN Field_Set(other[1]) ELSE Field_None>>)

\* tests: impl Diff for SomeEnum
Diff_SomeEnum(ty, self, other) ==
  IF Eq(ty, self, other) THEN Field_None
  ELSE CASE self[1] = "None" /\ other[1] = "None" ->
              Field_Changes(<<"None", changeset(T_unit, "()", "()")>>)
         [] self[1] = "Field1" /\ other[1] = "Field1" ->
              Field_Changes(<<"Field1", changeset(T_String, self[2], other[2])>>)
         [] self[1] = "Field2" /\ other[1] = "Field2" ->
              Field_Changes(<<"Field2", changeset(T_u8, self[2], other[2])>>)
         [] self[1] = "Field3" /\ other[1] = "Field3" ->
              Field_Changes(<<"Field3", changeset(T_Bar, self[2], other[2])>>)
         [] self[1] = "Field4" /\ other[1] = "Field4" ->
              Field_Changes(<<"Field4", changeset(T_u8, self[2], other[2]),
                                        changeset(T_u8, self[3], other[3])>>)
         [] OTHER -> Field_Set(other)

changeset(ty, self, other) ==
  CASE IsScalar(ty) -> Diff_scalar(ty, self, other)
    [] Kind(ty) = "Option" -> Diff_Option(ty, self, other)
    [] Kind(ty) = "Result" -> Diff_Result(ty, self, other)
    [] Kind(ty) = "Vec" -> Diff_Vec(ty, self, other)
    [] Kind(ty) = "Struct" -> Diff_struct(ty, self, other)
    [] Kind(ty) = "Bar" -> Diff_Bar(ty, self, other)
    [] Kind(ty) = "SomeEnum" -> Diff_SomeEnum(ty, self, other)

\* ---- Apply::apply ----
\* The outcome of an apply call: the target as the call leaves it, and whether
\* the call ended in a panic (unreachable!, or an index out of bounds).
Returned(t) == [target |-> t, panicked |-> FALSE]
Panicked(t) == [target |-> t, panicked |-> TRUE]

RECURSIVE Apply_Field(_, _, _)

\* VecAction::apply with Push inserting at the front
Apply_VecAction_PushFront(ty, action, target) ==
  CASE action[1] = "Set" ->
         IF action[2] >= Len(target) THEN Panicked(target)
         ELSE LET r == Apply_Field(ty[2], action[3], target[action[2] + 1])
              IN [target |-> [target EXCEPT ![action[2] + 1] = r.target],
                  panicked |-> r.panicked]
    [] action[1] = "Push" -> Returned(<<action[2]>> \o target)
    [] action[1] = "Truncate" ->
         IF action[2] >= Len(target) THEN Returned(target)
         ELSE Returned(SubSeq(target, 1, action[2]))
    [] action[1] = "Append" -> Returned(target \o action[2])

\* impl Apply<Vec<T>> for VecAction<T>
Apply_VecAction(ty, action, target) ==
  CASE action[1] = "Set" ->
         IF action[2] >= Len(target) THEN Panicked(target)
         ELSE LET r == Apply_Field(ty[2], action[3], target[action[2] + 1])
              IN [target |-> [target EXCEPT ![action[2] + 1] = r.target],
                  panicked |-> r.panicked]
    [] action[1] = "Push" -> Returned(Append(target, action[2]))
    [] action[1] = "Truncate" ->
         IF action[2] >= Len(target) THEN Returned(target)
         ELSE Returned(SubSeq(target, 1, action[2]))
    [] action[1] = "Append" -> Returned(target \o action[2])

\* Self::Action::apply: VecAction for a Vec, () for every other type
Apply_Action(ty, action, target) ==
  IF Kind(ty) = "Vec" THEN Apply_VecAction(ty, action, target)
  ELSE Returned(target)

\* a for_each that goes on with the next action after one has panicked
RECURSIVE Apply_Actions_KeepGoing(_, _, _)
Apply_Actions_KeepGoing(ty, actions, target) ==
  IF Len(actions) = 0 THEN Returned(target)
  ELSE LET r == Apply_Action(ty, Head(actions), target)
           rest == Apply_Actions_KeepGoing(ty, Tail(actions), r.target)
       IN [target |-> rest.target, panicked |-> r.panicked \/ rest.panicked]

\* actions.into_iter().for_each(|x| x.apply(target))
RECURSIVE Apply_Actions(_, _, _)
Apply_Actions(ty, actions, target) ==
  IF Len(actions) = 0 THEN Returned(target)
  ELSE LET r == Apply_Action(ty, Head(actions), target)
       IN IF r.panicked THEN r
          ELSE Apply_Actions(ty, Tail(actions), r.target)

\* OptionChangeset::apply returning quietly when the target is None
Apply_OptionChangeset_Quiet(ty, k, target) ==
  CASE k[1] = "NoneChangeset" -> Returned(<<"None">>)
    [] k[1] = "SomeChangeset" ->
         IF target[1] = "Some"
           THEN LET r == Apply_Field(ty[2], k[2], target[2])
                IN [target |-> <<"Some", r.target>>, panicked |-> r.panicked]
         ELSE Returned(target)

\* impl Apply<Option<T>> for OptionChangeset<T>
Apply_OptionChangeset(ty, k, target) ==
  CASE k[1] = "NoneChangeset" -> Returned(<<"None">>)
    [] k[1] = "SomeChangeset" ->
         IF target[1] = "Some"
           THEN LET r == Apply_Field(ty[2], k[2], target[2])
                IN [target |-> <<"Some", r.target>>, panicked |-> r.panicked]
         ELSE Panicked(target)

\* impl Apply<Result<T, E>> for ResultChangeset<T, E>
Apply_ResultChangeset(ty, k, target) ==
  CASE k[1] = "OkChangeset" ->
         IF target[1] = "Ok"
           THEN LET r == Apply_Field(ty[2], k[2], target[2])
                IN [target |-> <<"Ok", r.target>>, panicked |-> r.panicked]
         ELSE Panicked(target)
    [] k[1] = "ErrChangeset" ->
         IF target[1] = "Err"
           THEN LET r == Apply_Field(ty[3], k[2], target[2])
                IN [target |-> <<"Err", r.target>>, panicked |-> r.panicked]
         ELSE Panicked(target)

\* a struct changeset's apply: each slot applied to its field, in field order
\* (tests: impl Apply<Foo> for FooChangeset, impl Apply<Bar> for BarChangeset)
RECURSIVE Apply_fields(_, _, _, _)
Apply_fields(ts, changes, target, i) ==
  IF i > Len(ts) THEN Returned(target)
  ELSE LET r == Apply_Field(ts[i], changes[i], target[i])
           t == [target EXCEPT ![i] = r.target]
       IN IF r.panicked THEN Panicked(t)
          ELSE Apply_fields(ts, changes, t, i + 1)

\* tests: impl Apply<SomeEnum> for SomeEnumChangeset
Apply_SomeEnumChangeset(ty, k, target) ==
  CASE k[1] = "None" -> Returned(<<"None">>)
    [] k[1] = "Field1" ->
         IF target[1] = "Field1"
           THEN LET r == Apply_Field(T_String, k[2], target[2])
                IN [target |-> <<"Field1", r.target>>, panicked |-> r.panicked]
         ELSE Panicked(target)
    [] k[1] = "Field2" ->
         IF target[1] = "Field2"
           THEN LET r == Apply_Field(T_u8, k[2], target[2])
                IN [target |-> <<"Field2", r.target>>, panicked |-> r.panicked]
         ELSE Panicked(target)
    [] k[1] = "Field3" ->
         IF target[1] = "Field3"
           THEN LET r == Apply_Field(T_Bar, k[2], target[2])
                IN [target |-> <<"Field3", r.target>>, panicked |-> r.panicked]
         ELSE Panicked(target)
    [] k[1] = "Field4" ->
         IF target[1] = "Field4"
           THEN LET r == Apply_fields(<<T_u8, T_u8>>, <<k[2], k[3]>>,
                                      <<target[2], target[3]>>, 1)
                IN [target |-> <<"Field4", r.target[1], r.target[2]>>,
                    panicked |-> r.panicked]
         ELSE Panicked(target)

\* Self::Changeset::apply, by the type of the target
Apply_Changeset(ty, k, target) ==
  CASE IsScalar(ty) -> Returned(target)
    [] Kind(ty) = "Option" -> Apply_OptionChangeset(ty, k, target)
    [] Kind(ty) = "Result" -> Apply_ResultChangeset(ty, k, target)
    [] Kind(ty) = "Vec" -> Returned(target)
    [] Kind(ty) = "Struct" -> Apply_fields(ty[2], k, target, 1)
    [] Kind(ty) = "Bar" -> Apply_fields(<<T_String>>, k, target, 1)
    [] Kind(ty) = "SomeEnum" -> Apply_SomeEnumChangeset(ty, k, target)

\* impl Apply<V> for Field<V, K, A>
Apply_Field(ty, field, target) ==
  CASE field[1] = "None" -> Returned(target)
    [] field[1] = "Set" -> Returned(field[2])
    [] field[1] = "Changes" -> Apply_Changeset(ty, field[2], target)
    [] field[1] = "Actions" -> Apply_Actions(ty, field[2], target)

\* ---- the program: diff a value against another, or build a changeset by
\* ---- hand, then apply the changeset to a mutable copy of the value ----
VARIABLES ty, base, other, cs, origin, target, panicked, pc
vars == <<ty, base, other, cs, origin, target, panicked, pc>>

\* the diffable types explored
Types ==
  { T_u8, T_f32, T_bool, T_unit, T_String,
    T_Option(T_u8), T_Option(T_f32), T_Option(T_Option(T_bool)), T_Option(T_Bar),
    T_Result(T_u8, T_String), T_Result(T_f32, T_Option(T_u8)),
    T_Vec(T_String), T_Vec(T_f32), T_Vec(T_Option(T_u8)), T_Vec(T_Vec(T_unit)),
    T_Bar, T_SomeEnum,
    T_Struct(<<T_u8, T_Option(T_f32), T_Vec(T_unit)>>) }

\* the sequences over S of length at most n
SeqsUpTo(S, n) == UNION {[1..k -> S] : k \in 0..n}

\* a Field<T, (), ()> written by hand for a scalar T
LeafFields(t) == {Field_None} \cup {Field_Set(v) : v \in Values(t)}

\* VecAction<String> values written by hand
HandActions ==
  {VecAction_Set(i, Field_Set("B")) : i \in 0..MaxIdx}
  \cup {VecAction_Push("A")}
  \cup {VecAction_Truncate(n) : n \in 0..MaxIdx}
  \cup {VecAction_Append(<<"A", "B">>)}

\* changesets a caller can construct without diffing
HandBuilt(t) ==
  CASE t = T_Option(T_u8) ->
         {Field_Changes(SomeChangeset(f)) : f \in LeafFields(T_u8)}
         \cup {Field_Changes(NoneChangeset(Field_None))}
    [] t = T_Result(T_u8, T_String) ->
         {Field_Changes(OkChangeset(f)) : f \in LeafFields(T_u8)}
         \cup {Field_Changes(ErrChangeset(f)) : f \in LeafFields(T_String)}
    [] t = T_Vec(T_String) ->
         {Field_Actions(l) : l \in SeqsUpTo(HandActions, MaxActs)}
    [] OTHER -> {}

Init ==
  /\ ty \in Types
  /\ base \in Values(ty)
  /\ target = base
  /\ other = <<>>
  /\ cs = <<>>
  /\ origin = "none"
  /\ panicked = FALSE
  /\ pc = "start"

\* let changeset = base.changeset(&b)
Diff ==
  /\ pc = "start"
  /\ \E b \in Values(ty) :
       /\ other' = <<b>>
       /\ cs' = <<changeset(ty, base, b)>>
  /\ origin' = "diff"
  /\ pc' = "ready"
  /\ UNCHANGED <<ty, base, target, panicked>>

\* a changeset constructed by hand
Construct ==
  /\ pc = "start"
  /\ \E f \in HandBuilt(ty) : cs' = <<f>>
  /\ origin' = "hand"
  /\ pc' = "ready"
  /\ UNCHANGED <<ty, base, other, target, panicked>>

\* changeset.apply(&mut target)
Apply ==
  /\ pc = "ready"
  /\ LET r == Apply_Field(ty, cs[1], target)
     IN /\ target' = r.target
        /\ panicked' = r.panicked
  /\ pc' = "done"
  /\ UNCHANGED <<ty, base, other, cs, origin>>

Next == Diff \/ Construct \/ Apply

Spec == Init /\ [][Next]_vars

\* ---- properties ----
Diffed == origin = "diff" /\ pc \in {"ready", "done"}
DiffApplied == origin = "diff" /\ pc = "done"
HandApplied == origin = "hand" /\ pc = "done"

\* C1 (as stated): applying base.changeset(&b) to a copy of base yields a value
\* equal to b, for every base and b of every diffable type.
C1_RoundTrip ==
  DiffApplied => ~panicked /\ Eq(ty, target, other[1])

\* C1 (amended): applying base.changeset(&b) to a copy of base yields a value
\* equal to b whenever b is equal to itself, that is whenever b holds no
\* floating-point NaN.
C1_RoundTripReflexiveOther ==
  (DiffApplied /\ Eq(ty, other[1], other[1]))
    => ~panicked /\ Eq(ty, target, other[1])

C1_Witness ==
  /\ DiffApplied
  /\ ty = T_Vec(T_f32)
  /\ base = <<"NaN", "1.0">>
  /\ other = << <<"0.0", "1.0">> >>
  /\ target = <<"0.0", "1.0">>

\* C2: x.changeset(&x) is Field::None for every value x of every diffable type.
C2_Reflexive ==
  (Diffed /\ other[1] = base) => IsNone(cs[1])

\* the 0-based positions of the common prefix whose element diff is not None
ChangedAt(t, x, y) ==
  {i \in 0..(Min(Len(x), Len(y)) - 1) : ~IsNone(changeset(t[2], x[i + 1], y[i + 1]))}

\* C3: for unequal sequences the diff is Actions(list), list being one
\* Set(i, element diff) per common position i whose element diff is not None, in
\* strictly increasing index order, then one Truncate(n) if m > n, one
\* Append(other[min..]) if m < n, nothing if m = n; no Push, nothing after the
\* Truncate or Append.
C3_SequenceDiffOutput ==
  (Diffed /\ Kind(ty) = "Vec" /\ ~Eq(ty, base, other[1])) =>
    LET b == other[1]
        m == Len(base)
        n == Len(b)
        nSets == Cardinality(ChangedAt(ty, base, b))
    IN /\ cs[1][1] = "Actions"
       /\ LET list == cs[1][2]
          IN /\ Len(list) = nSets + (IF m = n THEN 0 ELSE 1)
             /\ \A k \in 1..Len(list) : list[k][1] # "Push"
             /\ \A k \in 1..nSets :
                  /\ list[k][1] = "Set"
                  /\ list[k][2] \in ChangedAt(ty, base, b)
                  /\ list[k][3] = changeset(ty[2], base[list[k][2] + 1], b[list[k][2] + 1])
                  /\ k < nSets => list[k + 1][1] = "Set" /\ list[k][2] < list[k + 1][2]
             /\ m > n => list[nSets + 1] = VecAction_Truncate(n)
             /\ m < n => list[nSets + 1] = VecAction_Append(SubSeq(b, Min(m, n) + 1, n))

C3_Witness ==
  /\ Diffed
  /\ ty = T_Vec(T_String)
  /\ base = <<"A">>
  /\ other = << <<"B", "B">> >>
  /\ cs = << Field_Actions(<< VecAction_Set(0, Field_Set("B")),
                              VecAction_Append(<<"B">>) >>) >>

\* the changeset case of an Option or Result branch
CaseOf(branch) ==
  CASE branch = "Some" -> "SomeChangeset"
    [] branch = "None" -> "NoneChangeset"
    [] branch = "Ok" -> "OkChangeset"
    [] branch = "Err" -> "ErrChangeset"

\* the payload type of a branch of an Option or Result type
PayloadType(t, branch) == IF branch = "Err" THEN t[3] ELSE t[2]

\* C4: for unequal Option or Result values, same branch gives
\* Changes(case wrapping the inner values' diff), different branches give
\* Set(other).
C4_SumTypeDiffRule ==
  (Diffed /\ Kind(ty) \in {"Option", "Result"} /\ ~Eq(ty, base, other[1])) =>
    LET b == other[1]
    IN IF base[1] = b[1]
         THEN cs[1] = Field_Changes(
                        <<CaseOf(b[1]),
                          changeset(PayloadType(ty, b[1]), base[2], b[2])>>)
       ELSE cs[1] = Field_Set(b)

C4_Witness ==
  /\ Diffed
  /\ ty = T_Result(T_f32, T_Option(T_u8))
  /\ base = <<"Err", <<"Some", 0>>>>
  /\ other = << <<"Err", <<"None">>>> >>
  /\ cs = << Field_Changes(ErrChangeset(Field_Set(<<"None">>))) >>

\* the field types of a struct type
FieldTypes(t) == IF Kind(t) = "Bar" THEN <<T_String>> ELSE t[2]

\* C5: a struct's diff is None when self == other and otherwise Changes(c),
\* every slot of c being the diff of that field; a field that does not differ
\* has the slot None.
C5_StructDiffProtocol ==
  (Diffed /\ Kind(ty) \in {"Struct", "Bar"}) =>
    LET b == other[1]
        ts == FieldTypes(ty)
    IN IF Eq(ty, base, b) THEN IsNone(cs[1])
       ELSE /\ cs[1][1] = "Changes"
            /\ Len(cs[1][2]) = Len(ts)
            /\ \A i \in 1..Len(ts) :
                 /\ cs[1][2][i] = changeset(ts[i], base[i], b[i])
                 /\ Eq(ts[i], base[i], b[i]) => IsNone(cs[1][2][i])

C5_Witness ==
  /\ Diffed
  /\ ty = T_Struct(<<T_u8, T_Option(T_f32), T_Vec(T_unit)>>)
  /\ base = <<0, <<"Some", "1.0">>, <<"()">>>>
  /\ other = << <<0, <<"Some", "0.0">>, <<"()">>>> >>
  /\ cs = << Field_Changes(<< Field_None,
                              Field_Changes(SomeChangeset(Field_Set("0.0"))),
                              Field_None >>) >>

\* C6: applying base.changeset(&b) to a copy of base never panics; in a Vec
\* diff every Set index is below min(m, n) and no Set follows the Truncate or
\* Append.
C6_NoFatalOnDiffProduced ==
  /\ DiffApplied => ~panicked
  /\ (Diffed /\ Kind(ty) = "Vec" /\ cs[1][1] = "Actions") =>
       LET list == cs[1][2]
       IN \A k \in 1..Len(list) :
            list[k][1] = "Set" =>
              /\ list[k][2] < Min(Len(base), Len(other[1]))
              /\ \A j \in 1..(k - 1) : list[j][1] = "Set"

C6_Witness ==
  /\ DiffApplied
  /\ ty = T_Vec(T_Option(T_u8))
  /\ base = << <<"Some", 0>>, <<"None">> >>
  /\ other = << << <<"Some", 1>> >> >>
  /\ cs = << Field_Actions(<< VecAction_Set(0, Field_Changes(SomeChangeset(Field_Set(1)))),
                              VecAction_Truncate(1) >>) >>
  /\ ~panicked

\* C7: SomeChangeset applied to None, OkChangeset applied to Err and
\* ErrChangeset applied to Ok end in a panic, and leave the target in the
\* branch it was in.
C7_BranchMismatchFatal ==
  (HandApplied /\ Kind(ty) \in {"Option", "Result"} /\ cs[1][1] = "Changes") =>
    LET k == cs[1][2]
        mismatch == \/ k[1] = "SomeChangeset" /\ base[1] = "None"
                    \/ k[1] = "OkChangeset" /\ base[1] = "Err"
                    \/ k[1] = "ErrChangeset" /\ base[1] = "Ok"
    IN mismatch => panicked /\ target[1] = base[1]

C7_Witness ==
  /\ HandApplied
  /\ ty = T_Option(T_u8)
  /\ base = <<"None">>
  /\ cs = << Field_Changes(SomeChangeset(Field_Set(1))) >>
  /\ panicked

BothAbsent ==
  Diffed /\ Kind(ty) = "Option" /\ base[1] = "None" /\ other[1][1] = "None"

\* C8 (as stated): diffing None against None yields NoneChangeset wrapping a
\* no-op Field.
C8_BothAbsentNoneChangeset ==
  BothAbsent => cs[1] = Field_Changes(NoneChangeset(Field_None))

\* C8 (amended): diffing None against None yields Field::None, and no diff of
\* two Option values yields the NoneChangeset case.
C8_BothAbsentFieldNone ==
  /\ BothAbsent => cs[1] = Field_None
  /\ (Diffed /\ Kind(ty) = "Option" /\ cs[1][1] = "Changes")
       => cs[1][2][1] # "NoneChangeset"

C8_Witness ==
  /\ BothAbsent
  /\ ty = T_Option(T_f32)
  /\ pc = "ready"
  /\ cs = << Field_None >>

\* C9: on a target of length L, Set(i, field) with i < L applies field to
\* target[i] and leaves the length and the other elements alone; Push(v) puts v
\* after the L elements; Truncate(len) keeps the first len elements when
\* len < L and changes nothing when len >= L; Append(items) puts items, in
\* order, after the old elements.
C9_VecActionSemantics ==
  (HandApplied /\ Kind(ty) = "Vec" /\ Len(cs[1][2]) = 1) =>
    LET action == cs[1][2][1]
        L == Len(base)
    IN CASE action[1] = "Set" ->
              action[2] < L =>
                /\ ~panicked
                /\ Len(target) = L
                /\ target[action[2] + 1]
                     = Apply_Field(ty[2], action[3], base[action[2] + 1]).target
                /\ action[3][1] = "Set" => target[action[2] + 1] = action[3][2]
                /\ \A j \in 1..L : j # action[2] + 1 => target[j] = base[j]
         [] action[1] = "Push" ->
              /\ ~panicked
              /\ Len(target) = L + 1
              /\ target[L + 1] = action[2]
              /\ \A j \in 1..L : target[j] = base[j]
         [] action[1] = "Truncate" ->
              /\ ~panicked
              /\ action[2] < L =>
                   /\ Len(target) = action[2]
                   /\ \A j \in 1..action[2] : target[j] = base[j]
              /\ action[2] >= L => target = base
         [] action[1] = "Append" ->
              /\ ~panicked
              /\ Len(target) = L + Len(action[2])
              /\ \A j \in 1..L : target[j] = base[j]
              /\ \A j \in 1..Len(action[2]) : target[L + j] = action[2][j]

C9_Witness ==
  /\ HandApplied
  /\ ty = T_Vec(T_String)
  /\ base = <<"A", "B">>
  /\ cs = << Field_Actions(<< VecAction_Truncate(1) >>) >>
  /\ target = <<"A">>

\* the list without its last element
Front(l) == SubSeq(l, 1, Len(l) - 1)

\* C10: Actions([A1..Ak]) is applied in list order, each action to the target
\* as the actions before it left it; when an action is a Set whose index is
\* not below the target's length at that moment the apply panics there, the
\* target keeps what the earlier actions did and no later action is applied.
C10_OrderedNonAtomic ==
  (HandApplied /\ Kind(ty) = "Vec") =>
    LET list == cs[1][2]
    IN /\ Len(list) = 0 => ~panicked /\ target = base
       /\ Len(list) > 0 =>
            LET before == Apply_Field(ty, Field_Actions(Front(list)), base)
                last == list[Len(list)]
            IN IF before.panicked
                 THEN panicked /\ target = before.target
               ELSE /\ [target |-> target, panicked |-> panicked]
                         = Apply_VecAction(ty, last, before.target)
                    /\ (last[1] = "Set" /\ last[2] >= Len(before.target))
                         => panicked /\ target = before.target
       /\ (base = <<"A">>
             /\ list = <<VecAction_Push("A"), VecAction_Set(1, Field_Set("B"))>>)
            => ~panicked /\ target = <<"A", "B">>
       /\ (base = <<"A", "B">>
             /\ list = <<VecAction_Truncate(1), VecAction_Set(1, Field_Set("B")),
                         VecAction_Push("A")>>)
            => panicked /\ target = <<"A">>

C10_Witness ==
  /\ HandApplied
  /\ ty = T_Vec(T_String)
  /\ base = <<"A", "B">>
  /\ cs = << Field_Actions(<<VecAction_Truncate(1), VecAction_Set(1, Field_Set("B")),
                             VecAction_Push("A")>>) >>
  /\ panicked
  /\ target = <<"A">>

\* C11: whenever two sequences are unequal, Vec::changeset returns
\* Actions(list) with a non-empty list in which no Set(i, f) carries
\* f = Field::None; the result is never Actions([]), Set or Changes.  An
\* element diff is None only for equal elements, which is what keeps the list
\* non-empty when the lengths agree.  (Checked for every element type explored,
\* f32 with NaN included.)
C11_NoVacuousSequenceDiff ==
  (Diffed /\ Kind(ty) = "Vec" /\ ~Eq(ty, base, other[1])) =>
    /\ cs[1][1] = "Actions"
    /\ Len(cs[1][2]) > 0
    /\ \A k \in 1..Len(cs[1][2]) :
         cs[1][2][k][1] = "Set" => ~IsNone(cs[1][2][k][3])
    /\ \A i \in 1..Min(Len(base), Len(other[1])) :
         IsNone(changeset(ty[2], base[i], other[1][i]))
           => Eq(ty[2], base[i], other[1][i])

C11_Witness ==
  /\ Diffed
  /\ ty = T_Vec(T_String)
  /\ base = <<"A", "B">>
  /\ other = << <<"A", "A">> >>
  /\ cs = << Field_Actions(<< VecAction_Set(1, Field_Set("A")) >>) >>

====
